---- MODULE Spec2Model ----
(***************************************************************************)
(* A model of src/plot_metrics.py: the command line entry point, the       *)
(* loading of the JSON document, the alignment of its records into time    *)
(* ordered series (keys_ms, transaction_counts, per-pod series,            *)
(* tx_per_sec, bar_width) and what is handed to the two charts.            *)
(*                                                                         *)
(* Representation of Python / JSON values:                                 *)
(*   - a string is the sequence of its character codes; the decimal digit  *)
(*     d has code d and every code above 9 is a character that is not a    *)
(*     digit;                                                              *)
(*   - a dict field that may be missing holds Absent (numbers) or          *)
(*     NameAbsent (names) when the key is not in the dict;                 *)
(*   - a float that results from a division is the pair [num, den] of the  *)
(*     exact quotient; bar_width is kept in tenths.                        *)
(***************************************************************************)
EXTENDS Integers, Sequences, FiniteSets, TLC

\* ------------------------------------------------------------------ bounds
MaxVal == 2
MaxKeys == 2
MaxClusters == 2
MaxPods == 2
MaxArgs == 2

\* ------------------------------------------------------- values and strings
Absent == 0 - 1
NameAbsent == << 0 - 1 >>
EmptyName == << >>
NameAB == <<11, 12>>
NameB == <<12>>
PodNameSamples == {NameAB, NameB}

Get(v) == IF v = Absent THEN 0 ELSE v

IsDigit(c) == c \in 0..9

\* int(k) raises ValueError unless k is a non-empty string of digits
CanParseInt(s) == Len(s) > 0 /\ \A i \in 1..Len(s) : IsDigit(s[i])

RECURSIVE ParseInt(_)
ParseInt(s) == IF Len(s) = 0 THEN 0
               ELSE 10 * ParseInt(SubSeq(s, 1, Len(s) - 1)) + s[Len(s)]

RECURSIVE Str(_)
Str(n) == IF n < 10 THEN <<n>> ELSE Str(n \div 10) \o <<n % 10>>

\* Python's < on strings: first differing character decides, a proper prefix
\* is smaller
RECURSIVE StrLess(_, _)
StrLess(a, b) ==
    IF Len(b) = 0 THEN FALSE
    ELSE IF Len(a) = 0 THEN TRUE
    ELSE IF Head(a) # Head(b) THEN Head(a) < Head(b)
    ELSE StrLess(Tail(a), Tail(b))

Falsy(name) == name = NameAbsent \/ name = EmptyName

\* ------------------------------------------------------------ JSON documents
\* A pod record. In the list form of podMetrics the name is read from the
\* fields podName / name; in the mapping form it is the key of the item.
Pod(isDict, key, podName, name, cpu, mem) ==
    [isDict |-> isDict, key |-> key, podName |-> podName, name |-> name,
     cpuInMillicores |-> cpu, memoryInMebibytes |-> mem]

\* A cluster entry: pmKind says what c.get("podMetrics") is.
Entry(isDict, pmKind, pods) == [isDict |-> isDict, pmKind |-> pmKind, pods |-> pods]

\* The value of the field clusterMetrics: missing, one value, or a list.
Clusters(kind, items) == [kind |-> kind, items |-> items]
NoClusters == Clusters("absent", << >>)

\* The record stored under one key of the document.
Rec(isDict, tx, cpu, mem, cm) ==
    [isDict |-> isDict, transactionCount |-> tx, cpuInMillicores |-> cpu,
     memoryInMebibytes |-> mem, clusterMetrics |-> cm]

SeqsUpTo(S, n) == UNION {[1..k -> S] : k \in 0..n}

MetricPairs == {<<v, Absent>> : v \in 1..MaxVal} \cup {<<Absent, MaxVal>>}

Namings == {<<NameAB, NameAbsent>>, <<NameB, NameAbsent>>, <<NameAbsent, NameAB>>,
            <<EmptyName, NameB>>, <<NameAbsent, NameAbsent>>}

NonDictPod == Pod(FALSE, NameAbsent, NameAbsent, NameAbsent, Absent, Absent)

ListPods == {NonDictPod} \cup
            {Pod(TRUE, NameAbsent, n[1], n[2], m[1], m[2]) : n \in Namings, m \in MetricPairs}

MapPods == {Pod(FALSE, k, NameAbsent, NameAbsent, Absent, Absent) : k \in PodNameSamples} \cup
           {Pod(TRUE, k, NameAbsent, NameAbsent, m[1], m[2]) : k \in PodNameSamples, m \in MetricPairs}

\* the items of a JSON object have distinct keys
MapItems == {s \in SeqsUpTo(MapPods, MaxPods) :
                \A i, j \in 1..Len(s) : i # j => s[i].key # s[j].key}

OnePod(name, cpu, mem) == Pod(TRUE, NameAbsent, name, NameAbsent, cpu, mem)

\* entries that differ in shape, for documents with several cluster entries
EntrySamples ==
    { Entry(FALSE, "absent", << >>),
      Entry(TRUE, "absent", << >>),
      Entry(TRUE, "other", << >>),
      Entry(TRUE, "list", << OnePod(NameAB, 1, Absent) >>),
      Entry(TRUE, "list", << OnePod(NameAB, MaxVal, 1), OnePod(NameAB, 1, 1) >>),
      Entry(TRUE, "list", << OnePod(NameB, Absent, 1) >>),
      Entry(TRUE, "dict", << Pod(TRUE, NameAB, NameAbsent, NameAbsent, MaxVal, MaxVal) >>) }

\* entries with every sampled shape of podMetrics, for documents with one entry
PodShapeEntries ==
    {Entry(TRUE, "list", s) : s \in SeqsUpTo(ListPods, MaxPods)} \cup
    {Entry(TRUE, "dict", s) : s \in MapItems}

ClusterSamples ==
    {Clusters("list", s) : s \in SeqsUpTo(EntrySamples, MaxClusters)} \cup
    {Clusters("single", <<e>>) : e \in EntrySamples} \cup
    {Clusters("single", <<e>>) : e \in PodShapeEntries} \cup
    {Clusters("list", <<e>>) : e \in PodShapeEntries}

PodsOnly(names) == Clusters("list", << Entry(TRUE, "list", names) >>)

\* records that differ in transactionCount only
TxRecSamples == {Rec(TRUE, tx, Absent, Absent, NoClusters) : tx \in {Absent} \cup 0..MaxVal}

\* records of documents with several keys
RecSamples ==
    TxRecSamples \cup
    {Rec(TRUE, Absent, m[1], m[2], NoClusters) : m \in MetricPairs} \cup
    { Rec(FALSE, Absent, Absent, Absent, NoClusters),
      Rec(TRUE, 1, Absent, Absent, PodsOnly(<< OnePod(NameAB, 1, MaxVal) >>)),
      Rec(TRUE, Absent, MaxVal, MaxVal, PodsOnly(<< OnePod(NameB, MaxVal, 1) >>)),
      Rec(TRUE, MaxVal, 1, Absent,
          PodsOnly(<< OnePod(NameB, 1, 1), OnePod(NameAB, MaxVal, Absent) >>)) }

\* keys "0", "1", "7", "007", "10" and "7x"
KeySamples == { <<0>>, <<1>>, <<7>>, <<0, 0, 7>>, <<1, 0>>, <<7, 33>> }

KeyDocs == UNION {[K -> RecSamples] : K \in {K \in SUBSET KeySamples : Cardinality(K) <= MaxKeys}}

ShapeDocs == {[k \in {<<0>>} |-> Rec(TRUE, 1, 1, 1, cm)] : cm \in ClusterSamples}

\* one key more, the records differing in transactionCount only
TxDocs == UNION {[K -> TxRecSamples] :
                    K \in {K \in SUBSET KeySamples : Cardinality(K) = MaxKeys + 1}}

Docs == KeyDocs \cup TxDocs \cup ShapeDocs

\* --------------------------------------------------------------- the aligner
\* sorted(int(k) for k in data.keys()): one integer per key, ascending
RECURSIVE SortedInts(_)
SortedInts(K) ==
    IF K = {} THEN << >>
    ELSE LET k == CHOOSE k \in K : \A j \in K : ParseInt(k) <= ParseInt(j)
         IN  <<ParseInt(k)>> \o SortedInts(K \ {k})

\* as KeysMs, in descending order
RECURSIVE SortedIntsDescending(_)
SortedIntsDescending(K) ==
    IF K = {} THEN << >>
    ELSE LET k == CHOOSE k \in K : \A j \in K : ParseInt(k) >= ParseInt(j)
         IN  <<ParseInt(k)>> \o SortedIntsDescending(K \ {k})

KeysMsDescending(d) == SortedIntsDescending(DOMAIN d)

KeysMs(d) == SortedInts(DOMAIN d)

\* data[str(k)].get("transactionCount", 0) raises KeyError when str(k) is no
\* key of the document and AttributeError when the record has no .get
LookupError(d, keys) ==
    IF \E i \in 1..Len(keys) : Str(keys[i]) \notin DOMAIN d \/ ~d[Str(keys[i])].isDict
    THEN LET i == CHOOSE i \in 1..Len(keys) :
                    /\ Str(keys[i]) \notin DOMAIN d \/ ~d[Str(keys[i])].isDict
                    /\ \A j \in 1..(i - 1) :
                          Str(keys[j]) \in DOMAIN d /\ d[Str(keys[j])].isDict
         IN  IF Str(keys[i]) \notin DOMAIN d THEN "KeyError" ELSE "AttributeError"
    ELSE "none"

TransactionCounts(d, keys) ==
    [i \in 1..Len(keys) |-> Get(d[Str(keys[i])].transactionCount)]

\* data.get(str(k), {})
EntryOf(d, k) ==
    IF Str(k) \in DOMAIN d THEN d[Str(k)]
    ELSE Rec(TRUE, Absent, Absent, Absent, NoClusters)

\* cluster if isinstance(cluster, list) else [cluster]; the default is []
ClusterList(entry) ==
    LET cluster == entry.clusterMetrics
    IN  IF cluster.kind = "absent" THEN << >>
        ELSE IF cluster.kind = "list" THEN cluster.items
        ELSE << cluster.items[1] >>

ZeroMetrics == [cpuInMillicores |-> 0, memoryInMebibytes |-> 0]

\* as AddPod, with = in place of +=
AddPodOverwrites(merged, pod_name, pod) ==
    [n \in DOMAIN merged \cup {pod_name} |->
        IF n = pod_name
        THEN [cpuInMillicores |-> Get(pod.cpuInMillicores),
              memoryInMebibytes |-> Get(pod.memoryInMebibytes)]
        ELSE merged[n]]

\* merged[pod_name] is created with zeros when missing, then += both fields
AddPod(merged, pod_name, pod) ==
    LET old == IF pod_name \in DOMAIN merged THEN merged[pod_name] ELSE ZeroMetrics
    IN  [n \in DOMAIN merged \cup {pod_name} |->
            IF n = pod_name
            THEN [cpuInMillicores |-> old.cpuInMillicores + Get(pod.cpuInMillicores),
                  memoryInMebibytes |-> old.memoryInMebibytes + Get(pod.memoryInMebibytes)]
            ELSE merged[n]]

\* pod.get("podName") or pod.get("name")
PodNameOf(pod) == IF Falsy(pod.podName) THEN pod.name ELSE pod.podName

\* for pod in pm (a list): a pod without .get raises AttributeError
RECURSIVE MergeListPods(_, _)
MergeListPods(acc, pods) ==
    IF acc.err \/ pods = << >> THEN acc
    ELSE LET pod == Head(pods)
         IN  IF ~pod.isDict THEN [acc EXCEPT !.err = TRUE]
             ELSE IF Falsy(PodNameOf(pod)) THEN MergeListPods(acc, Tail(pods))
             ELSE MergeListPods([acc EXCEPT !.merged = AddPod(acc.merged, PodNameOf(pod), pod)],
                                Tail(pods))

\* for pod_name, metrics in pm.items(): metrics that are no dict are skipped
RECURSIVE MergeMapPods(_, _)
MergeMapPods(acc, items) ==
    IF items = << >> THEN acc
    ELSE LET metrics == Head(items)
         IN  IF ~metrics.isDict THEN MergeMapPods(acc, Tail(items))
             ELSE MergeMapPods([acc EXCEPT !.merged = AddPod(acc.merged, metrics.key, metrics)],
                               Tail(items))

\* for c in clusters
RECURSIVE MergeClusters(_, _)
MergeClusters(acc, clusters) ==
    IF acc.err \/ clusters = << >> THEN acc
    ELSE LET c == Head(clusters)
         IN  IF ~c.isDict THEN MergeClusters(acc, Tail(clusters))
             ELSE IF c.pmKind = "list"
                  THEN MergeClusters(MergeListPods(acc, c.pods), Tail(clusters))
             ELSE IF c.pmKind = "dict"
                  THEN MergeClusters(MergeMapPods(acc, c.pods), Tail(clusters))
             ELSE MergeClusters(acc, Tail(clusters))

EmptyMerged == [n \in {} |-> ZeroMetrics]

\* the body of the loop over keys_ms, for one key
Merged(d, k) == MergeClusters([err |-> FALSE, merged |-> EmptyMerged], ClusterList(EntryOf(d, k)))

PodMetricsByTime(d, keys) == [i \in 1..Len(keys) |-> Merged(d, keys[i]).merged]

AggregateError(d, keys) == \E i \in 1..Len(keys) : Merged(d, keys[i]).err

\* sorted(pod_names)
RECURSIVE SortedNames(_)
SortedNames(S) ==
    IF S = {} THEN << >>
    ELSE LET n == CHOOSE n \in S : \A m \in S : m = n \/ StrLess(n, m)
         IN  <<n>> \o SortedNames(S \ {n})

PodNames(pmbt) == SortedNames(UNION {DOMAIN pmbt[i] : i \in 1..Len(pmbt)})

\* as PodSeries, a missing sample taking the value of the sample before it
PodSeriesCarriesForward(pmbt, names, field) ==
    [p \in {names[j] : j \in 1..Len(names)} |->
        [i \in 1..Len(pmbt) |->
            IF p \in DOMAIN pmbt[i] THEN pmbt[i][p][field]
            ELSE IF i > 1 /\ p \in DOMAIN pmbt[i - 1] THEN pmbt[i - 1][p][field]
            ELSE 0]]

\* pm.get(pod, {}).get(field, 0), appended for every element of pod_metrics_by_time
PodSeries(pmbt, names, field) ==
    [p \in {names[j] : j \in 1..Len(names)} |->
        [i \in 1..Len(pmbt) |-> IF p \in DOMAIN pmbt[i] THEN pmbt[i][p][field] ELSE 0]]

\* delta_tx / (delta_ms / 1000.0), as the exact quotient num / den
Ratio(num, den) == [num |-> num, den |-> den]
Zero == Ratio(0, 1)

\* as RateAt, guarding delta_ms < 0 only
RateAtDividesByZero(counts, keys, i) ==
    IF i = 1 THEN [num |-> 0, den |-> 1]
    ELSE LET delta_tx == counts[i] - counts[i - 1]
             delta_ms == keys[i] - keys[i - 1]
         IN  IF delta_ms < 0 THEN [num |-> 0, den |-> 1]
             ELSE [num |-> delta_tx * 1000, den |-> delta_ms]

RateAt(counts, keys, i) ==
    IF i = 1 THEN Zero
    ELSE LET delta_tx == counts[i] - counts[i - 1]
             delta_ms == keys[i] - keys[i - 1]
         IN  IF delta_ms <= 0 THEN Zero ELSE Ratio(delta_tx * 1000, delta_ms)

\* as TxPerSec, appending nothing for the first sample
TxPerSecSkipsFirst(counts, keys) ==
    [i \in 1..(Len(counts) - 1) |-> RateAt(counts, keys, i + 1)]

TxPerSec(counts, keys) == [i \in 1..Len(counts) |-> RateAt(counts, keys, i)]

Min(S) == CHOOSE x \in S : \A y \in S : x <= y
Max(a, b) == IF a >= b THEN a ELSE b

MinDelta(keys) ==
    IF Len(keys) > 1
    THEN LET deltas == {keys[i + 1] - keys[i] : i \in {j \in 1..(Len(keys) - 1) : keys[j + 1] - keys[j] > 0}}
         IN  IF deltas # {} THEN Min(deltas) ELSE 1
    ELSE 1

\* as BarWidth, without the factor 0.8
BarWidthUnscaled(keys) == IF MinDelta(keys) * 10 >= 10 THEN MinDelta(keys) * 10 ELSE 10

\* max(float(min_delta) * 0.8, 1.0), in tenths
BarWidth(keys) == Max(MinDelta(keys) * 8, 10)

\* -------------------------------------------------------------- the charts
Bar(label, x, height, bottom, width) ==
    [label |-> label, x |-> x, height |-> height, bottom |-> bottom, width |-> width]

PodLabel(pod) == [kind |-> "pod", pod |-> pod]
CpuLabel == [kind |-> "CPU (millicores)", pod |-> EmptyName]

\* a bar drawn without the argument bottom
NoBottom == << >>

Zeros(n) == [i \in 1..n |-> 0]

\* [b + s for b, s in zip(bottom, series)]
Stack(bottom, series) ==
    [i \in 1..(IF Len(bottom) <= Len(series) THEN Len(bottom) ELSE Len(series)) |->
        bottom[i] + series[i]]

\* one ax.bar(...) per pod, each on top of the bars before it
RECURSIVE StackedBars(_, _, _, _, _)
StackedBars(names, series, x, bottom, width) ==
    IF names = << >> THEN << >>
    ELSE << Bar(PodLabel(Head(names)), x, series[Head(names)], bottom, width) >> \o
         StackedBars(Tail(names), series, x, Stack(bottom, series[Head(names)]), width)

\* as CpuValues, in the order of the keys reversed
CpuValuesReversed(d, keys) ==
    [i \in 1..Len(keys) |-> Get(d[Str(keys[Len(keys) + 1 - i])].cpuInMillicores)]

\* the fall back of the CPU chart: the top-level cpuInMillicores of every record
CpuValues(d, keys) == [i \in 1..Len(keys) |-> Get(d[Str(keys[i])].cpuInMillicores)]

CpuBars(d, keys, names, series, width) ==
    IF names # << >>
    THEN StackedBars(names, series, keys, Zeros(Len(keys)), width)
    ELSE << Bar(CpuLabel, keys, CpuValues(d, keys), NoBottom, width) >>

MemBars(keys, names, series, width) ==
    StackedBars(names, series, keys, Zeros(Len(keys)), width)

Line(x, y) == [x |-> x, y |-> y]
NoLine == Line(<< >>, << >>)

\* ------------------------------------------------------------- the program
VARIABLES pc, argc, data, keys_ms, transaction_counts, pod_metrics_by_time,
          pod_names, pod_cpu_series, pod_mem_series, tx_per_sec, bar_width,
          ax_cpu, ax_cpu_tps, ax_mem, ax_mem_tps, shown, printed, status

vars == <<pc, argc, data, keys_ms, transaction_counts, pod_metrics_by_time,
          pod_names, pod_cpu_series, pod_mem_series, tx_per_sec, bar_width,
          ax_cpu, ax_cpu_tps, ax_mem, ax_mem_tps, shown, printed, status>>

aligned == <<keys_ms, transaction_counts, pod_metrics_by_time, pod_names,
             pod_cpu_series, pod_mem_series, tx_per_sec, bar_width>>
charts == <<ax_cpu, ax_cpu_tps, ax_mem, ax_mem_tps, shown>>

Running == 0 - 1
EmptyDoc == [k \in {} |-> Rec(TRUE, Absent, Absent, Absent, NoClusters)]

Init ==
    /\ pc = "main"
    /\ argc \in 1..(MaxArgs + 1)
    /\ data = EmptyDoc
    /\ keys_ms = << >>
    /\ transaction_counts = << >>
    /\ pod_metrics_by_time = << >>
    /\ pod_names = << >>
    /\ pod_cpu_series = EmptyMerged
    /\ pod_mem_series = EmptyMerged
    /\ tx_per_sec = << >>
    /\ bar_width = 0
    /\ ax_cpu = << >>
    /\ ax_cpu_tps = NoLine
    /\ ax_mem = << >>
    /\ ax_mem_tps = NoLine
    /\ shown = FALSE
    /\ printed = "nothing"
    /\ status = Running

\* sys.exit(1) after a message
Exit1(message) ==
    /\ pc' = "exited"
    /\ printed' = message
    /\ status' = 1

\* an exception nothing catches: the traceback is printed, the status is 1
Raise(exception) ==
    /\ pc' = "crashed"
    /\ printed' = exception
    /\ status' = 1

Goto(label) ==
    /\ pc' = label
    /\ UNCHANGED <<printed, status>>

\* as Main, without the check of the argument count
MainWithoutCheck ==
    /\ pc = "main"
    /\ Goto("load")
    /\ UNCHANGED <<argc, data, aligned, charts>>

\* if len(sys.argv) != 2: usage and exit, else plot_metrics(sys.argv[1])
Main ==
    /\ pc = "main"
    /\ IF argc # 2 THEN Exit1("Usage") ELSE Goto("load")
    /\ UNCHANGED <<argc, data, aligned, charts>>

\* open() or json.load() raises: the message, then sys.exit(1)
LoadFails ==
    /\ pc = "load"
    /\ Exit1("Error reading JSON file")
    /\ UNCHANGED <<argc, data, aligned, charts>>

\* json.load() returns the document
Load ==
    /\ pc = "load"
    /\ \E d \in Docs : data' = d
    /\ Goto("keys")
    /\ UNCHANGED <<argc, aligned, charts>>

ParseKeys ==
    /\ pc = "keys"
    /\ IF \E k \in DOMAIN data : ~CanParseInt(k)
       THEN Raise("ValueError") /\ UNCHANGED keys_ms
       ELSE Goto("counts") /\ keys_ms' = KeysMs(data)
    /\ UNCHANGED <<argc, data, transaction_counts, pod_metrics_by_time, pod_names,
                   pod_cpu_series, pod_mem_series, tx_per_sec, bar_width, charts>>

ReadCounts ==
    /\ pc = "counts"
    /\ IF LookupError(data, keys_ms) # "none"
       THEN Raise(LookupError(data, keys_ms)) /\ UNCHANGED transaction_counts
       ELSE Goto("aggregate") /\ transaction_counts' = TransactionCounts(data, keys_ms)
    /\ UNCHANGED <<argc, data, keys_ms, pod_metrics_by_time, pod_names,
                   pod_cpu_series, pod_mem_series, tx_per_sec, bar_width, charts>>

Aggregate ==
    /\ pc = "aggregate"
    /\ IF AggregateError(data, keys_ms)
       THEN Raise("AttributeError") /\ UNCHANGED <<pod_metrics_by_time, pod_names>>
       ELSE /\ Goto("series")
            /\ pod_metrics_by_time' = PodMetricsByTime(data, keys_ms)
            /\ pod_names' = PodNames(PodMetricsByTime(data, keys_ms))
    /\ UNCHANGED <<argc, data, keys_ms, transaction_counts,
                   pod_cpu_series, pod_mem_series, tx_per_sec, bar_width, charts>>

BuildSeries ==
    /\ pc = "series"
    /\ pod_cpu_series' = PodSeries(pod_metrics_by_time, pod_names, "cpuInMillicores")
    /\ pod_mem_series' = PodSeries(pod_metrics_by_time, pod_names, "memoryInMebibytes")
    /\ Goto("rate")
    /\ UNCHANGED <<argc, data, keys_ms, transaction_counts, pod_metrics_by_time,
                   pod_names, tx_per_sec, bar_width, charts>>

ComputeRate ==
    /\ pc = "rate"
    /\ LET rates == TxPerSec(transaction_counts, keys_ms)
       IN  IF \E i \in 1..Len(rates) : rates[i].den = 0
           THEN Raise("ZeroDivisionError") /\ UNCHANGED tx_per_sec
           ELSE Goto("width") /\ tx_per_sec' = rates
    /\ UNCHANGED <<argc, data, keys_ms, transaction_counts, pod_metrics_by_time,
                   pod_names, pod_cpu_series, pod_mem_series, bar_width, charts>>

ComputeWidth ==
    /\ pc = "width"
    /\ bar_width' = BarWidth(keys_ms)
    /\ Goto("plot_cpu")
    /\ UNCHANGED <<argc, data, keys_ms, transaction_counts, pod_metrics_by_time,
                   pod_names, pod_cpu_series, pod_mem_series, tx_per_sec, charts>>

PlotCpu ==
    /\ pc = "plot_cpu"
    /\ ax_cpu' = CpuBars(data, keys_ms, pod_names, pod_cpu_series, bar_width)
    /\ ax_cpu_tps' = Line(keys_ms, tx_per_sec)
    /\ Goto("plot_mem")
    /\ UNCHANGED <<argc, data, aligned, ax_mem, ax_mem_tps, shown>>

PlotMem ==
    /\ pc = "plot_mem"
    /\ ax_mem' = MemBars(keys_ms, pod_names, pod_mem_series, bar_width)
    /\ ax_mem_tps' = Line(keys_ms, tx_per_sec)
    /\ Goto("show")
    /\ UNCHANGED <<argc, data, aligned, ax_cpu, ax_cpu_tps, shown>>

\* plt.show() opens the windows and returns when they are closed
Show ==
    /\ pc = "show"
    /\ shown' = TRUE
    /\ pc' = "done"
    /\ status' = 0
    /\ UNCHANGED <<argc, data, aligned, ax_cpu, ax_cpu_tps, ax_mem, ax_mem_tps, printed>>

Next ==
    \/ Main
    \/ LoadFails
    \/ Load
    \/ ParseKeys
    \/ ReadCounts
    \/ Aggregate
    \/ BuildSeries
    \/ ComputeRate
    \/ ComputeWidth
    \/ PlotCpu
    \/ PlotMem
    \/ Show

Spec == Init /\ [][Next]_vars

\* ------------------------------------------------- what the claims speak of
KeysParsed == pc \in {"counts", "aggregate", "series", "rate", "width",
                      "plot_cpu", "plot_mem", "show", "done"}
              \/ (pc = "crashed" /\ printed # "ValueError")
Aggregated == pc \in {"series", "rate", "width", "plot_cpu", "plot_mem", "show", "done"}
RateComputed == pc \in {"width", "plot_cpu", "plot_mem", "show", "done"}
WidthComputed == pc \in {"plot_cpu", "plot_mem", "show", "done"}

\* the keys of the document that denote the timestamp t
KeysDenoting(t) == {s \in DOMAIN data : CanParseInt(s) /\ ParseInt(s) = t}

\* no two keys of the document denote the same integer
NoAlias == \A t \in {keys_ms[i] : i \in 1..Len(keys_ms)} : Cardinality(KeysDenoting(t)) = 1

\* the record of timestamp t, when one key denotes it
RecordAt(t) == data[CHOOSE s \in KeysDenoting(t) : TRUE]

\* the name under which a pod record reports, in either form of podMetrics
ReportedName(entry, pod) ==
    IF entry.pmKind = "dict" THEN pod.key
    ELSE IF pod.podName \notin {NameAbsent, EmptyName} THEN pod.podName
    ELSE pod.name

\* the places <<cluster entry, pod record>> of a record that report a pod
Reports(rec) ==
    LET items == rec.clusterMetrics.items
    IN  UNION {{<<c, j>> : j \in {j \in 1..Len(items[c].pods) :
                                /\ items[c].isDict
                                /\ items[c].pmKind \in {"list", "dict"}
                                /\ items[c].pods[j].isDict
                                /\ ReportedName(items[c], items[c].pods[j])
                                       \notin {NameAbsent, EmptyName}}} :
               c \in 1..Len(items)}

ReportName(rec, r) ==
    ReportedName(rec.clusterMetrics.items[r[1]], rec.clusterMetrics.items[r[1]].pods[r[2]])

ReportValue(rec, r, field) ==
    LET v == rec.clusterMetrics.items[r[1]].pods[r[2]][field]
    IN  IF v = Absent THEN 0 ELSE v

NamesIn(rec) == {ReportName(rec, r) : r \in Reports(rec)}

RECURSIVE SumOver(_, _, _)
SumOver(S, rec, field) ==
    IF S = {} THEN 0
    ELSE LET r == CHOOSE r \in S : TRUE
         IN  ReportValue(rec, r, field) + SumOver(S \ {r}, rec, field)

\* the sum of a pod's values over every place of the record that reports it
Total(rec, p, field) == SumOver({r \in Reports(rec) : ReportName(rec, r) = p}, rec, field)

Reverse(s) == [i \in 1..Len(s) |-> s[Len(s) + 1 - i]]

Elems(s) == {s[i] : i \in 1..Len(s)}

\* ================================================================== claims

C2_Rate ==
    /\ printed # "ZeroDivisionError"
    /\ RateComputed =>
          /\ Len(tx_per_sec) = Len(keys_ms)
          /\ \A i \in 1..Len(tx_per_sec) :
                LET r == tx_per_sec[i]
                IN  /\ r.den # 0
                    /\ i = 1 => r.num = 0
                    /\ i > 1 =>
                          LET deltaTx == transaction_counts[i] - transaction_counts[i - 1]
                              deltaMs == keys_ms[i] - keys_ms[i - 1]
                          IN  /\ deltaMs <= 0 => r.num = 0
                              /\ deltaMs > 0 => r.num * deltaMs = deltaTx * 1000 * r.den

\* two samples 0 ms apart, then a rate that is not zero: two counts that
\* differ, 3 ms apart
C2_Witness ==
    /\ pc = "done"
    /\ keys_ms = <<7, 7, 10>>
    /\ transaction_counts = <<0, 0, MaxVal>>
    /\ tx_per_sec[2] = Zero
    /\ tx_per_sec[3].num = 1000 * MaxVal
    /\ tx_per_sec[3].den = 3

\* C3: at every timestamp that one key denotes, the pods aggregated are the
\* pods the record reports, and each pod's cpuInMillicores and
\* memoryInMebibytes are the sums of its values over every cluster entry and
\* pod record that reports it, in the list and in the mapping form alike;
\* the cluster entries taken in the reverse order give the same aggregate.
C3_Additive ==
    Aggregated =>
        \A i \in 1..Len(keys_ms) :
            Cardinality(KeysDenoting(keys_ms[i])) = 1 =>
                LET rec == RecordAt(keys_ms[i])
                    m == pod_metrics_by_time[i]
                IN  /\ DOMAIN m = NamesIn(rec)
                    /\ \A p \in NamesIn(rec) :
                          /\ m[p].cpuInMillicores = Total(rec, p, "cpuInMillicores")
                          /\ m[p].memoryInMebibytes = Total(rec, p, "memoryInMebibytes")
                    /\ MergeClusters([err |-> FALSE, merged |-> EmptyMerged],
                                     Reverse(rec.clusterMetrics.items)).merged = m

\* one pod reported by two cluster entries, once in a list and once in a
\* mapping, with the two values added
C3_Witness ==
    /\ pc = "done"
    /\ Len(keys_ms) = 1
    /\ LET items == RecordAt(keys_ms[1]).clusterMetrics.items
       IN  /\ Len(items) = 2
           /\ items[1].pmKind = "dict"
           /\ items[2].pmKind = "list"
           /\ Len(items[2].pods) = 1
    /\ NameAB \in DOMAIN pod_metrics_by_time[1]
    /\ pod_metrics_by_time[1][NameAB].cpuInMillicores = MaxVal + 1

\* C4: in a completed run over a document no two keys of which denote the
\* same integer, pod_names lists, in ascending lexicographic order and
\* without repetition, exactly the pods some record reports; every per-pod
\* series has a slot for every timestamp, holding the pod's aggregate there
\* when the record of that timestamp reports the pod and 0 otherwise.
C4_PodSeries ==
    (pc = "done" /\ NoAlias) =>
        /\ Elems(pod_names) = UNION {NamesIn(data[s]) : s \in DOMAIN data}
        /\ \A j \in 1..Len(pod_names) : \A k \in 1..Len(pod_names) :
              j < k => StrLess(pod_names[j], pod_names[k])
        /\ DOMAIN pod_cpu_series = Elems(pod_names)
        /\ DOMAIN pod_mem_series = Elems(pod_names)
        /\ \A p \in Elems(pod_names) :
              /\ DOMAIN pod_cpu_series[p] = 1..Len(keys_ms)
              /\ DOMAIN pod_mem_series[p] = 1..Len(keys_ms)
              /\ \A i \in 1..Len(keys_ms) :
                    LET rec == RecordAt(keys_ms[i])
                    IN  IF p \in NamesIn(rec)
                        THEN /\ pod_cpu_series[p][i] = Total(rec, p, "cpuInMillicores")
                             /\ pod_mem_series[p][i] = Total(rec, p, "memoryInMebibytes")
                        ELSE /\ pod_cpu_series[p][i] = 0
                             /\ pod_mem_series[p][i] = 0

\* two pods at the first timestamp, one of them gone at the second: its slot
\* there is 0 and not the value before
C4_Witness ==
    /\ pc = "done"
    /\ NoAlias
    /\ Len(keys_ms) = 2
    /\ pod_names = <<NameAB, NameB>>
    /\ NameAB \notin NamesIn(RecordAt(keys_ms[2]))
    /\ pod_cpu_series[NameAB][1] > 0
    /\ pod_cpu_series[NameAB][2] = 0
    /\ pod_cpu_series[NameB][2] > 0

\* C5 (as claimed): keys_ms is strictly ascending, two keys that denote the
\* same integer giving one entry.
C5_StrictlyAscending ==
    pc = "done" => \A i \in 1..(Len(keys_ms) - 1) : keys_ms[i] < keys_ms[i + 1]

\* C5 (amended): keys_ms is ascending but not deduplicated: it holds the
\* integer of every key once per key that denotes it, so keys_ms[i] <=
\* keys_ms[i+1] and its length is the number of keys.
C5_AscendingOnePerKey ==
    KeysParsed =>
        /\ \A i \in 1..(Len(keys_ms) - 1) : keys_ms[i] <= keys_ms[i + 1]
        /\ Len(keys_ms) = Cardinality(DOMAIN data)
        /\ \A s \in DOMAIN data :
              Cardinality({i \in 1..Len(keys_ms) : keys_ms[i] = ParseInt(s)})
                 = Cardinality(KeysDenoting(ParseInt(s)))
        /\ \A i \in 1..Len(keys_ms) : KeysDenoting(keys_ms[i]) # {}

\* the keys "007" and "7" of one document give two entries
C5_Witness ==
    /\ KeysParsed
    /\ DOMAIN data = { <<0, 0, 7>>, <<7>> }
    /\ keys_ms = <<7, 7>>

\* a series whose i-th value is the top-level field of a record that a key
\* denoting the i-th timestamp holds, 0 standing for a missing field
TopLevelSeries(series, field) ==
    /\ DOMAIN series = 1..Len(keys_ms)
    /\ \A i \in 1..Len(keys_ms) :
          \E s \in KeysDenoting(keys_ms[i]) :
              series[i] = (IF data[s][field] = Absent THEN 0 ELSE data[s][field])

\* C6 (as claimed): every completed run produces a cpu series and a memory
\* series that hold the top-level cpuInMillicores and memoryInMebibytes of
\* the records, with or without per-pod metrics in the document.
C6_TopLevelAlways ==
    (pc = "done" /\ Len(keys_ms) > 0) =>
        /\ \E b \in Elems(ax_cpu) : TopLevelSeries(b.height, "cpuInMillicores")
        /\ \E b \in Elems(ax_mem) : TopLevelSeries(b.height, "memoryInMebibytes")

\* C6 (amended): the series of top-level cpuInMillicores, aligned to keys_ms
\* with 0 for a missing field, is produced exactly when no pod was found, as
\* the only bars of the CPU chart; when pods were found the CPU chart holds
\* one series per pod and no top-level series; the top-level
\* memoryInMebibytes is never read: the memory chart holds one series per
\* pod and nothing else.
C6_TopLevelFallback ==
    pc = "done" =>
        /\ pod_names = << >> =>
              /\ Len(ax_cpu) = 1
              /\ ax_cpu[1].label = CpuLabel
              /\ ax_cpu[1].x = keys_ms
              /\ TopLevelSeries(ax_cpu[1].height, "cpuInMillicores")
        /\ pod_names # << >> =>
              /\ Len(ax_cpu) = Len(pod_names)
              /\ \A j \in 1..Len(pod_names) :
                    /\ ax_cpu[j].label = PodLabel(pod_names[j])
                    /\ ax_cpu[j].height = pod_cpu_series[pod_names[j]]
        /\ Len(ax_mem) = Len(pod_names)
        /\ \A j \in 1..Len(pod_names) :
              /\ ax_mem[j].label = PodLabel(pod_names[j])
              /\ ax_mem[j].height = pod_mem_series[pod_names[j]]

\* two records without pods whose top-level cpuInMillicores differ, and no
\* bar at all on the memory chart although one record has memoryInMebibytes
C6_Witness ==
    /\ pc = "done"
    /\ keys_ms = <<0, 10>>
    /\ pod_names = << >>
    /\ ax_cpu[1].height = <<MaxVal, 0>>
    /\ data[<<1, 0>>].memoryInMebibytes = MaxVal
    /\ ax_mem = << >>

\* C7 (as claimed): with keys that are canonical integers and records that
\* are dicts, no irregular shape inside a record raises: the run never ends
\* in an uncaught exception.
C7_NeverRaises ==
    (/\ \A s \in DOMAIN data : CanParseInt(s) /\ Str(ParseInt(s)) = s /\ data[s].isDict)
        => pc # "crashed"

\* C8: a wrong argument count ends the run with the usage message and status
\* 1 before anything is read; a file that cannot be read or parsed ends it
\* with the error message and status 1; a run that ends with status 1, by
\* sys.exit or by an exception, has opened no chart window, and a window is
\* open only in a run that completed with status 0.
C8_ErrorsExit ==
    /\ (argc # 2 /\ pc # "main") =>
          pc = "exited" /\ printed = "Usage" /\ status = 1 /\ DOMAIN data = {}
    /\ pc = "exited" =>
          /\ status = 1
          /\ printed \in {"Usage", "Error reading JSON file"}
          /\ keys_ms = << >> /\ ax_cpu = << >> /\ ax_mem = << >>
    /\ pc = "crashed" => status = 1
    /\ status = 1 => ~shown /\ pc \in {"exited", "crashed"}
    /\ shown => pc = "done" /\ status = 0 /\ argc = 2

\* the file could not be read or parsed
C8_Witness ==
    /\ pc = "exited"
    /\ argc = 2
    /\ printed = "Error reading JSON file"
    /\ status = 1
    /\ ~shown

\* C9 (as claimed): a document whose keys all parse as integers and whose
\* values are all dicts is aligned without a failed lookup: the record of
\* every key is found.
C9_EveryRecordFound ==
    (\A s \in DOMAIN data : CanParseInt(s) /\ data[s].isDict)
        => ~(pc = "crashed" /\ printed = "KeyError")

\* C10: bar_width is max(0.8 * g, 1.0) for the smallest strictly positive
\* difference g of consecutive timestamps, 1.0 when there are fewer than two
\* timestamps or no such difference, and never below 1.0 (bar_width is in
\* tenths).
C10_BarWidth ==
    WidthComputed =>
        LET gaps == {keys_ms[i + 1] - keys_ms[i] : i \in 1..(Len(keys_ms) - 1)}
            positive == {g \in gaps : g > 0}
        IN  /\ bar_width >= 10
            /\ (Len(keys_ms) < 2 \/ positive = {}) => bar_width = 10
            /\ positive # {} =>
                  \E g \in positive :
                      /\ \A h \in positive : g <= h
                      /\ 8 * g >= 10 => bar_width = 8 * g
                      /\ 8 * g < 10 => bar_width = 10

\* timestamps 0, 7 and 10: the smaller gap, 3, gives the width 2.4
C10_Witness ==
    /\ pc = "done"
    /\ keys_ms = <<0, 7, 10>>
    /\ bar_width = 24

====
